---- MODULE Spec2Model ----
(***************************************************************************)
(* Model of the drive backend of src/server.js: an Express application    *)
(* whose route handlers read and write three tables (folders, files,      *)
(* shares) and one storage bucket ('drive') of a hosted store.            *)
(*                                                                         *)
(* The tables are sets of rows.  The store enforces primary-key           *)
(* uniqueness, generates the ids of folders and shares, and fills         *)
(* is_deleted with false on insert; it enforces nothing else.  The bucket *)
(* signs a download URL only for an object it holds, and its remove call  *)
(* reports a failure in its result instead of throwing.  A handler is one *)
(* action, which leaves its response (with the caller it answers) in res. *)
(* The handler of POST /api/files/:id/share is also given as its two      *)
(* store calls (the lookup and the insert) so that requests can           *)
(* interleave between them.                                               *)
(*                                                                         *)
(* Next is the whole application.  NextUpload, NextRace, NextShare,        *)
(* NextLinks, NextTrash, NextObjects and NextFolders are the parts of it  *)
(* that the claims are checked on, each with the routes and the request   *)
(* inputs of one scenario.                                                 *)
(***************************************************************************)
EXTENDS Integers, Sequences, FiniteSets, TLC

VARIABLES folders, files, shares, bucket, issued, nextFolder, nextShare, inflight, res

vars == <<folders, files, shares, bucket, issued, nextFolder, nextShare, inflight, res>>

(***************************************************************************)
(* Bounds of the model.                                                    *)
(***************************************************************************)
MaxFiles == 2
MaxFolders == 2
MaxShares == 3
MaxInflight == 2

(***************************************************************************)
(* Program constants: the lifetimes of the signed download URLs.          *)
(***************************************************************************)
OwnerTtl == 60
PublicTtl == 3600

(***************************************************************************)
(* Values.  Ids of different tables never coincide (they are uuids), so   *)
(* each table draws its ids from its own range; 0 stands for null.        *)
(***************************************************************************)
NULL == 0
Root == -1
NoEmail == ""
Users == {"A", "B"}
Email(u) == IF u = "A" THEN "a@x" ELSE "b@x"
Emails == {"b@x"}
FileIds == 1..MaxFiles
FolderIds == 101..(100 + MaxFolders)
ShareIds == 201..(200 + MaxShares)
Names == {<<"a">>, <<"A", "b">>}
Queries == {<<"a">>, <<"b">>}
Sizes == {1, 2}
Types == {"file", "folder", "none"}
Slots == 1..MaxInflight

\* `users/${req.user.id}/${fileId}-${name}`
StoragePath(u, fileId, name) == <<u, fileId, name>>

NoRes == [op |-> "none", status |-> 0]

(***************************************************************************)
(* The store's query helpers.                                              *)
(***************************************************************************)
\* .single(): the row when exactly one row matches, otherwise no data
\* (and an error).
NoRow == [id |-> NULL]
Single(rows) == IF Cardinality(rows) = 1 THEN CHOOSE r \in rows : TRUE ELSE NoRow

\* storage.createSignedUrl(key, ttl): a capability for an object of the
\* bucket, no data for a key the bucket's objects do not include.
NoUrl == [ttl |-> 0]
createSignedUrl(objects, key, ttl) == IF key \in objects THEN [key |-> key, ttl |-> ttl] ELSE NoUrl

\* ilike '%q%': q occurs in name, letter case ignored.
Lower(c) == IF c = "A" THEN "a" ELSE IF c = "B" THEN "b" ELSE c
ILike(name, q) ==
    \E i \in 0..(Len(name) - Len(q)) :
        \A j \in 1..Len(q) : Lower(name[i + j]) = Lower(q[j])

\* A slot of inflight with no request in it.
Idle == [pc |-> "idle"]

Init ==
    /\ folders = {}
    /\ files = {}
    /\ shares = {}
    /\ bucket = {}
    /\ issued = {}
    /\ nextFolder = 101
    /\ nextShare = 201
    /\ inflight = [s \in Slots |-> Idle]
    /\ res = NoRes

(***************************************************************************)
(* POST /api/folders                                                       *)
(***************************************************************************)
\* The folder ids the store has generated so far: the ids a caller can name
\* as parentId, an id being unknown to everyone until the store generates it.
GeneratedFolderIds == {id \in FolderIds : id < nextFolder}

CreateFolder(u, name, parentId) ==
    /\ nextFolder \in FolderIds
    /\ LET row == [id |-> nextFolder, name |-> name, parent_id |-> parentId,
                   owner_id |-> u, is_deleted |-> FALSE]
       IN /\ folders' = folders \cup {row}
          /\ res' = [op |-> "CreateFolder", user |-> u, status |-> 201, body |-> row]
    /\ nextFolder' = nextFolder + 1
    /\ UNCHANGED <<files, shares, bucket, issued, nextShare, inflight>>

(***************************************************************************)
(* GET /api/folders/:id                                                    *)
(***************************************************************************)
\* The two child queries, over the tables fo and fi.
ListChildren(fo, fi, u, folderId) ==
    [folders |-> {d \in fo : d.owner_id = u /\ ~d.is_deleted /\ d.parent_id = folderId},
     files |-> {f \in fi : f.owner_id = u /\ ~f.is_deleted /\ f.folder_id = folderId}]

ListFolderBody(fo, fi, u, id) ==
    LET folderId == IF id = Root THEN NULL ELSE id
        currentFolder == IF folderId # NULL
                         THEN Single({d \in fo : d.id = folderId})
                         ELSE NoRow
    IN [folder |-> currentFolder, children |-> ListChildren(fo, fi, u, folderId)]

ListFolder(u, id) ==
    /\ res' = [op |-> "ListFolder", user |-> u, status |-> 200,
               body |-> ListFolderBody(folders, files, u, id)]
    /\ UNCHANGED <<folders, files, shares, bucket, issued, nextFolder, nextShare, inflight>>

(***************************************************************************)
(* POST /api/files/init, and the client's PUT to the signed upload URL     *)
(***************************************************************************)
IssuedIds == {i.fileId : i \in issued}
IssuedKeys == {i.storageKey : i \in issued}
KeysIssuedFor(fileId) == {i.storageKey : i \in {j \in issued : j.fileId = fileId}}

\* uuidv4(): an id that nothing holds yet.
FreshFileIds == FileIds \ (IssuedIds \cup {f.id : f \in files})

InitUpload(u, name, folderId) ==
    /\ \/ \E fileId \in FreshFileIds :
            LET storagePath == StoragePath(u, fileId, name)
            IN /\ issued' = issued \cup {[fileId |-> fileId, storageKey |-> storagePath]}
               /\ res' = [op |-> "InitUpload", user |-> u, status |-> 200,
                          body |-> [fileId |-> fileId, storageKey |-> storagePath]]
       \/ /\ res' = [op |-> "InitUpload", user |-> u, status |-> 500]
          /\ UNCHANGED issued
    /\ UNCHANGED <<folders, files, shares, bucket, nextFolder, nextShare, inflight>>

PutObject(i) ==
    /\ i \in issued
    /\ bucket' = bucket \cup {i.storageKey}
    /\ res' = [op |-> "PutObject", status |-> 200]
    /\ UNCHANGED <<folders, files, shares, issued, nextFolder, nextShare, inflight>>

(***************************************************************************)
(* POST /api/files/complete                                                *)
(***************************************************************************)
\* A bug to tell apart: the insert as an upsert, the new row replacing the
\* row that holds the id.
InsertFileUpsert(row) == {f \in files : f.id # row.id} \cup {row}

\* The insert of a row into files: refused when the primary key is taken.
InsertFile(row) == IF \E f \in files : f.id = row.id THEN files ELSE files \cup {row}

CompleteUpload(u, fileId, name, sizeBytes, folderId, storageKey) ==
    LET row == [id |-> fileId, name |-> name, size_bytes |-> sizeBytes,
                storage_key |-> storageKey, folder_id |-> folderId,
                owner_id |-> u, is_deleted |-> FALSE]
    IN /\ files' = InsertFile(row)
       /\ res' = IF \E f \in files : f.id = fileId
                 THEN [op |-> "CompleteUpload", user |-> u, status |-> 400]
                 ELSE [op |-> "CompleteUpload", user |-> u, status |-> 200, body |-> row]
       /\ UNCHANGED <<folders, shares, bucket, issued, nextFolder, nextShare, inflight>>

(***************************************************************************)
(* GET /api/files/:id                                                      *)
(***************************************************************************)
\* A bug to tell apart: the lookup with an is_deleted = false filter, as in
\* the listing routes.
GetDownloadHidingTrash(u, id) ==
    LET file == Single({f \in files : f.id = id /\ f.owner_id = u /\ ~f.is_deleted})
        data == createSignedUrl(bucket, file.storage_key, OwnerTtl)
    IN /\ res' = IF file = NoRow THEN [op |-> "GetDownload", user |-> u, status |-> 404]
                 ELSE IF data = NoUrl THEN [op |-> "GetDownload", user |-> u, status |-> 500]
                 ELSE [op |-> "GetDownload", user |-> u, status |-> 200,
                       body |-> [url |-> data, name |-> file.name]]
       /\ UNCHANGED <<folders, files, shares, bucket, issued, nextFolder, nextShare, inflight>>

GetDownload(u, id) ==
    LET file == Single({f \in files : f.id = id /\ f.owner_id = u})
        data == createSignedUrl(bucket, file.storage_key, OwnerTtl)
    IN /\ res' = IF file = NoRow THEN [op |-> "GetDownload", user |-> u, status |-> 404]
                 ELSE IF data = NoUrl THEN [op |-> "GetDownload", user |-> u, status |-> 500]
                 ELSE [op |-> "GetDownload", user |-> u, status |-> 200,
                       body |-> [url |-> data, name |-> file.name]]
       /\ UNCHANGED <<folders, files, shares, bucket, issued, nextFolder, nextShare, inflight>>

(***************************************************************************)
(* DELETE /api/files/:id                                                   *)
(***************************************************************************)
\* A bug to tell apart: the update without its id filter, so that it
\* reaches every row of the caller.
SetDeletedNoIdFilter(table, id, u, v) ==
    {IF r.owner_id = u THEN [r EXCEPT !.is_deleted = v] ELSE r : r \in table}

\* update table set is_deleted = v where id = id and owner_id = u
SetDeleted(table, id, u, v) ==
    {IF r.id = id /\ r.owner_id = u THEN [r EXCEPT !.is_deleted = v] ELSE r : r \in table}

\* A bug to tell apart: the soft delete applied to the folders table too.
DeleteFileOrFolder(u, id) ==
    /\ files' = SetDeleted(files, id, u, TRUE)
    /\ folders' = SetDeleted(folders, id, u, TRUE)
    /\ res' = [op |-> "DeleteFile", user |-> u, status |-> 200]
    /\ UNCHANGED <<shares, bucket, issued, nextFolder, nextShare, inflight>>

DeleteFile(u, id) ==
    /\ files' = SetDeleted(files, id, u, TRUE)
    /\ res' = [op |-> "DeleteFile", user |-> u, status |-> 200]
    /\ UNCHANGED <<folders, shares, bucket, issued, nextFolder, nextShare, inflight>>

(***************************************************************************)
(* GET /api/search                                                         *)
(***************************************************************************)
SearchBody(fi, u, q) == {f \in fi : f.owner_id = u /\ ~f.is_deleted /\ ILike(f.name, q)}

Search(u, q) ==
    /\ res' = [op |-> "Search", user |-> u, status |-> 200, body |-> SearchBody(files, u, q)]
    /\ UNCHANGED <<folders, files, shares, bucket, issued, nextFolder, nextShare, inflight>>

(***************************************************************************)
(* POST /api/files/:id/share                                               *)
(***************************************************************************)
\* select * from shares where file_id = id, .single()
ShareLookup(id) == Single({s \in shares : s.file_id = id})

PublicShare(id) ==
    [id |-> nextShare, file_id |-> id, is_public |-> TRUE, grantee_email |-> NoEmail]

\* The rest of the handler, given what the lookup returned.
ShareRespond(u, id, share) ==
    IF share = NoRow
    THEN /\ nextShare \in ShareIds
         /\ shares' = shares \cup {PublicShare(id)}
         /\ nextShare' = nextShare + 1
         /\ res' = [op |-> "Share", user |-> u, status |-> 200, shareId |-> nextShare, isPublic |-> TRUE]
    ELSE /\ res' = [op |-> "Share", user |-> u, status |-> 200, shareId |-> share.id,
                    isPublic |-> share.is_public]
         /\ UNCHANGED <<shares, nextShare>>

\* The handler with nothing running between its two store calls.
Share(u, id) ==
    /\ ShareRespond(u, id, ShareLookup(id))
    /\ UNCHANGED <<folders, files, bucket, issued, nextFolder, inflight>>

\* The handler as its two store calls: a request occupies a slot from the
\* lookup to the response, and the slot keeps the response until the next
\* request takes it.
ShareBegin(s, u, id) ==
    /\ inflight[s].pc # "insert"
    /\ \A t \in Slots : t < s => inflight[t].pc = "insert"
    /\ inflight' = [inflight EXCEPT ![s] =
                       [pc |-> "insert", user |-> u, id |-> id, share |-> ShareLookup(id)]]
    /\ UNCHANGED <<folders, files, shares, bucket, issued, nextFolder, nextShare, res>>

ShareEnd(s) ==
    /\ inflight[s].pc = "insert"
    /\ ShareRespond(inflight[s].user, inflight[s].id, inflight[s].share)
    /\ inflight' = [inflight EXCEPT ![s] =
                       [pc |-> "done", id |-> inflight[s].id, shareId |-> res'.shareId]]
    /\ UNCHANGED <<folders, files, bucket, issued, nextFolder>>

(***************************************************************************)
(* GET /api/shared/:shareId                                                *)
(***************************************************************************)
\* A bug to tell apart: the share looked up by id alone, without the
\* is_public filter.
ResolveAnyShareRes(sh, fi, objects, shareId) ==
    LET share == Single({s \in sh : s.id = shareId})
        file == Single({f \in fi : f.id = share.file_id})
        signed == createSignedUrl(objects, file.storage_key, PublicTtl)
    IN IF share = NoRow THEN [op |-> "ResolveSharedFile", status |-> 404]
       ELSE IF file = NoRow THEN [op |-> "ResolveSharedFile", status |-> 500]
       ELSE IF signed = NoUrl THEN [op |-> "ResolveSharedFile", status |-> 500]
       ELSE [op |-> "ResolveSharedFile", status |-> 200,
             body |-> [file |-> file, url |-> signed]]

\* The response, over the tables sh and fi and the bucket's objects.
ResolveSharedFileRes(sh, fi, objects, shareId) ==
    LET share == Single({s \in sh : s.id = shareId /\ s.is_public})
        file == Single({f \in fi : f.id = share.file_id})
        signed == createSignedUrl(objects, file.storage_key, PublicTtl)
    IN IF share = NoRow THEN [op |-> "ResolveSharedFile", status |-> 404]
       ELSE IF file = NoRow THEN [op |-> "ResolveSharedFile", status |-> 500]
       ELSE IF signed = NoUrl THEN [op |-> "ResolveSharedFile", status |-> 500]
       ELSE [op |-> "ResolveSharedFile", status |-> 200,
             body |-> [file |-> file, url |-> signed]]

ResolveSharedFile(shareId) ==
    /\ res' = ResolveSharedFileRes(shares, files, bucket, shareId)
    /\ UNCHANGED <<folders, files, shares, bucket, issued, nextFolder, nextShare, inflight>>

(***************************************************************************)
(* GET /api/trash                                                          *)
(***************************************************************************)
ListTrashBody(fo, fi, u) ==
    [folders |-> {d \in fo : d.owner_id = u /\ d.is_deleted},
     files |-> {f \in fi : f.owner_id = u /\ f.is_deleted}]

ListTrash(u) ==
    /\ res' = [op |-> "ListTrash", user |-> u, status |-> 200, body |-> ListTrashBody(folders, files, u)]
    /\ UNCHANGED <<folders, files, shares, bucket, issued, nextFolder, nextShare, inflight>>

(***************************************************************************)
(* POST /api/trash/restore                                                 *)
(***************************************************************************)
\* A bug to tell apart: the update filtered on the id alone, so that it
\* reaches the row of another user.
RestoreNoOwnerFilter(u, id, type) ==
    /\ IF type = "folder"
       THEN /\ folders' = {IF r.id = id THEN [r EXCEPT !.is_deleted = FALSE] ELSE r : r \in folders}
            /\ UNCHANGED files
       ELSE /\ files' = {IF r.id = id THEN [r EXCEPT !.is_deleted = FALSE] ELSE r : r \in files}
            /\ UNCHANGED folders
    /\ res' = [op |-> "Restore", user |-> u, status |-> 200]
    /\ UNCHANGED <<shares, bucket, issued, nextFolder, nextShare, inflight>>

Restore(u, id, type) ==
    /\ IF type = "folder"
       THEN folders' = SetDeleted(folders, id, u, FALSE) /\ UNCHANGED files
       ELSE files' = SetDeleted(files, id, u, FALSE) /\ UNCHANGED folders
    /\ res' = [op |-> "Restore", user |-> u, status |-> 200]
    /\ UNCHANGED <<shares, bucket, issued, nextFolder, nextShare, inflight>>

(***************************************************************************)
(* DELETE /api/trash/:id                                                   *)
(***************************************************************************)
\* A bug to tell apart: the delete without its owner filter.
DeleteRowNoOwnerFilter(table, id, u) == {r \in table : r.id # id}

\* delete from table where id = id and owner_id = u
DeleteRow(table, id, u) == {r \in table : ~(r.id = id /\ r.owner_id = u)}

\* select storage_key from files where id = id, .single()
PurgeLookup(id, type) == IF type = "file" THEN Single({f \in files : f.id = id}) ELSE NoRow

\* storage.remove([key]): the object is removed, or the call returns an
\* error and the bucket is as before.
Purge(key, removed) == IF removed THEN bucket \ {key} ELSE bucket

\* The outcomes of storage.remove to tell apart for a request of this type:
\* the call is made for type file only.
PurgeOutcomes(type) == IF type = "file" THEN BOOLEAN ELSE {TRUE}

\* removed: storage.remove succeeds; deleted: the row delete succeeds.
PermanentDelete(u, id, type, removed, deleted) ==
    LET file == PurgeLookup(id, type)
    IN /\ bucket' = IF file # NoRow THEN Purge(file.storage_key, removed) ELSE bucket
       /\ IF ~deleted
          THEN /\ res' = [op |-> "PermanentDelete", user |-> u, status |-> 500]
               /\ UNCHANGED <<folders, files>>
          ELSE /\ res' = [op |-> "PermanentDelete", user |-> u, status |-> 200]
               /\ IF type = "folder"
                  THEN folders' = DeleteRow(folders, id, u) /\ UNCHANGED files
                  ELSE files' = DeleteRow(files, id, u) /\ UNCHANGED folders
       /\ UNCHANGED <<shares, issued, nextFolder, nextShare, inflight>>

(***************************************************************************)
(* POST /api/files/:id/share-email                                         *)
(***************************************************************************)
ShareWithEmail(u, id, email) ==
    /\ nextShare \in ShareIds
    /\ LET row == [id |-> nextShare, file_id |-> id, is_public |-> FALSE,
                   grantee_email |-> email]
       IN /\ shares' = shares \cup {row}
          /\ res' = [op |-> "ShareWithEmail", user |-> u, status |-> 200, body |-> {row}]
    /\ nextShare' = nextShare + 1
    /\ UNCHANGED <<folders, files, bucket, issued, nextFolder, inflight>>

(***************************************************************************)
(* GET /api/shared-with-me                                                 *)
(***************************************************************************)
ListSharedWithMeBody(u) ==
    {f \in files : ~f.is_deleted /\
        \E s \in shares : s.grantee_email = Email(u) /\ s.file_id = f.id}

ListSharedWithMe(u) ==
    /\ res' = [op |-> "ListSharedWithMe", user |-> u, status |-> 200, body |-> ListSharedWithMeBody(u)]
    /\ UNCHANGED <<folders, files, shares, bucket, issued, nextFolder, nextShare, inflight>>

(***************************************************************************)
(* The whole application: every route, requests served one at a time.      *)
(***************************************************************************)
Next ==
    \/ \E u \in Users : \E n \in Names : \E p \in {NULL} \cup GeneratedFolderIds :
         CreateFolder(u, n, p)
    \/ \E u \in Users : \E id \in {Root} \cup FolderIds : ListFolder(u, id)
    \/ \E u \in Users : \E n \in Names : InitUpload(u, n, NULL)
    \/ \E i \in issued : PutObject(i)
    \/ \E u \in Users : \E f \in FileIds : \E n \in Names : \E sz \in Sizes :
         \E d \in {NULL} \cup FolderIds : \E k \in IssuedKeys \cup {StoragePath(u, f, n)} :
            CompleteUpload(u, f, n, sz, d, k)
    \/ \E u \in Users : \E f \in FileIds : GetDownload(u, f)
    \/ \E u \in Users : \E f \in FileIds : DeleteFile(u, f)
    \/ \E u \in Users : \E q \in Queries : Search(u, q)
    \/ \E u \in Users : \E f \in FileIds : Share(u, f)
    \/ \E sid \in ShareIds : ResolveSharedFile(sid)
    \/ \E u \in Users : ListTrash(u)
    \/ \E u \in Users : \E id \in FileIds \cup FolderIds : \E t \in Types : Restore(u, id, t)
    \/ \E u \in Users : \E id \in FileIds \cup FolderIds : \E t \in Types :
         \E removed \in BOOLEAN : \E deleted \in BOOLEAN :
            PermanentDelete(u, id, t, removed, deleted)
    \/ \E u \in Users : \E f \in FileIds : \E e \in Emails : ShareWithEmail(u, f, e)
    \/ \E u \in Users : ListSharedWithMe(u)

Spec == Init /\ [][Next]_vars

(***************************************************************************)
(* The upload flow, with every field of the completed row chosen by the    *)
(* caller.                                                                 *)
(***************************************************************************)
Bodies ==
    {[name |-> <<"a">>, sizeBytes |-> 1, folderId |-> NULL],
     [name |-> <<"A", "b">>, sizeBytes |-> 2, folderId |-> 101]}

NextUpload ==
    \/ \E u \in Users : \E b \in Bodies : InitUpload(u, b.name, b.folderId)
    \/ \E u \in Users : \E f \in FileIds : \E b \in Bodies :
         \E k \in KeysIssuedFor(f) \cup {StoragePath(u, f, b.name)} :
            CompleteUpload(u, f, b.name, b.sizeBytes, b.folderId, k)

SpecUpload == Init /\ [][NextUpload]_vars

(***************************************************************************)
(* Concurrent share requests for files that exist: the share handler as    *)
(* its two store calls, up to MaxInflight requests between the lookup and  *)
(* the insert.                                                             *)
(***************************************************************************)
NextRace ==
    \/ \E u \in Users : \E f \in FileIds :
         CompleteUpload(u, f, <<"a">>, 1, NULL, StoragePath(u, f, <<"a">>))
    \/ \E s \in Slots : \E u \in Users : \E r \in files : ShareBegin(s, u, r.id)
    \/ \E s \in Slots : ShareEnd(s)

SpecRace == Init /\ [][NextRace]_vars

(***************************************************************************)
(* Sharing, requests served one at a time: upload, the two share routes    *)
(* called for files that exist, the anonymous route and permanent delete.  *)
(***************************************************************************)
NextShare ==
    \/ \E u \in Users : InitUpload(u, <<"a">>, NULL)
    \/ \E i \in issued : PutObject(i)
    \/ \E u \in Users : \E f \in FileIds :
         \E k \in KeysIssuedFor(f) \cap {StoragePath(u, f, <<"a">>)} :
            CompleteUpload(u, f, <<"a">>, 1, NULL, k)
    \/ \E u \in Users : \E r \in files : Share(u, r.id)
    \/ \E u \in Users : \E r \in files : \E e \in Emails : ShareWithEmail(u, r.id, e)
    \/ \E sid \in ShareIds : ResolveSharedFile(sid)
    \/ \E u \in Users : \E f \in FileIds : \E removed \in BOOLEAN : \E deleted \in BOOLEAN :
         PermanentDelete(u, f, "file", removed, deleted)
    \/ \E u \in Users : ListSharedWithMe(u)

SpecShare == Init /\ [][NextShare]_vars

(***************************************************************************)
(* The trash: upload by a client that completes what it initiated, soft    *)
(* delete, restore, permanent delete and the owner's views.                *)
(***************************************************************************)
NextTrash ==
    \/ \E u \in Users : \E b \in Bodies : InitUpload(u, b.name, b.folderId)
    \/ \E i \in issued : PutObject(i)
    \/ \E u \in Users : \E f \in FileIds : \E b \in Bodies :
         \E k \in KeysIssuedFor(f) \cap {StoragePath(u, f, b.name)} :
            CompleteUpload(u, f, b.name, b.sizeBytes, b.folderId, k)
    \/ \E u \in Users : \E f \in FileIds : DeleteFile(u, f)
    \/ \E u \in Users : \E f \in FileIds : \E t \in Types : Restore(u, f, t)
    \/ \E u \in Users : \E f \in FileIds : \E t \in Types :
         \E removed \in PurgeOutcomes(t) : \E deleted \in BOOLEAN :
            PermanentDelete(u, f, t, removed, deleted)
    \/ \E u \in Users : \E b \in Bodies :
         ListFolder(u, IF b.folderId = NULL THEN Root ELSE b.folderId)
    \/ \E u \in Users : ListTrash(u)
    \/ \E u \in Users : \E q \in Queries : Search(u, q)
    \/ \E u \in Users : \E f \in FileIds : GetDownload(u, f)

SpecTrash == Init /\ [][NextTrash]_vars

(***************************************************************************)
(* Links: upload, the two share routes called for files that exist, and    *)
(* the anonymous route called with every share id.                         *)
(***************************************************************************)
NextLinks ==
    \/ \E u \in Users : InitUpload(u, <<"a">>, NULL)
    \/ \E i \in issued : PutObject(i)
    \/ \E u \in Users : \E f \in FileIds :
         \E k \in KeysIssuedFor(f) \cap {StoragePath(u, f, <<"a">>)} :
            CompleteUpload(u, f, <<"a">>, 1, NULL, k)
    \/ \E u \in Users : \E r \in files : Share(u, r.id)
    \/ \E u \in Users : \E r \in files : \E e \in Emails : ShareWithEmail(u, r.id, e)
    \/ \E sid \in ShareIds : ResolveSharedFile(sid)

SpecLinks == Init /\ [][NextLinks]_vars

(***************************************************************************)
(* The life of a file and its object: upload by a client that completes    *)
(* what it initiated, soft delete, restore, permanent delete with each     *)
(* outcome of its two store calls, and download.                           *)
(***************************************************************************)
NextObjects ==
    \/ \E u \in Users : InitUpload(u, <<"a">>, NULL)
    \/ \E i \in issued : PutObject(i)
    \/ \E u \in Users : \E f \in FileIds :
         \E k \in KeysIssuedFor(f) \cap {StoragePath(u, f, <<"a">>)} :
            CompleteUpload(u, f, <<"a">>, 1, NULL, k)
    \/ \E u \in Users : \E f \in FileIds : DeleteFile(u, f)
    \/ \E u \in Users : \E f \in FileIds : \E t \in Types : Restore(u, f, t)
    \/ \E u \in Users : \E f \in FileIds : \E t \in Types :
         \E removed \in PurgeOutcomes(t) : \E deleted \in BOOLEAN :
            PermanentDelete(u, f, t, removed, deleted)
    \/ \E u \in Users : \E f \in FileIds : GetDownload(u, f)

SpecObjects == Init /\ [][NextObjects]_vars

(***************************************************************************)
(* The folder tree: folders created under any folder id generated so far,  *)
(* one file (id 1) completed into them, and soft delete, restore and       *)
(* permanent delete called with the ids of the file and of folders.        *)
(***************************************************************************)
NextFolders ==
    \/ \E u \in Users : \E p \in {NULL} \cup GeneratedFolderIds : CreateFolder(u, <<"a">>, p)
    \/ \E u \in Users : \E d \in {NULL} \cup GeneratedFolderIds :
         CompleteUpload(u, 1, <<"a">>, 1, d, StoragePath(u, 1, <<"a">>))
    \/ \E u \in Users : \E id \in {1} \cup FolderIds : DeleteFile(u, id)
    \/ \E u \in Users : \E id \in {1} \cup FolderIds : \E t \in {"file", "folder"} :
         Restore(u, id, t)
    \/ \E u \in Users : \E id \in {1} \cup FolderIds : \E t \in {"file", "folder"} :
         \E deleted \in BOOLEAN : PermanentDelete(u, id, t, TRUE, deleted)
    \/ \E u \in Users : \E id \in {Root} \cup FolderIds : ListFolder(u, id)
    \/ \E u \in Users : ListTrash(u)

SpecFolders == Init /\ [][NextFolders]_vars

(***************************************************************************)
(* Claims                                                                  *)
(***************************************************************************)

PublicShares(f) == {s \in shares : s.file_id = f /\ s.is_public}

\* C1: once the share requests made for a file (all of them made while the
\* file had no share row when the first began) have been answered, the file
\* has exactly one public share row and the requests were all answered with
\* the same shareId.
C1_ConcurrentShareOneRow ==
    \A s \in Slots : \A t \in Slots :
        (/\ inflight[s].pc = "done"
         /\ inflight[t].pc = "done"
         /\ inflight[s].id = inflight[t].id
         /\ \E r \in files : r.id = inflight[s].id)
        => /\ inflight[s].shareId = inflight[t].shareId
           /\ Cardinality(PublicShares(inflight[s].id)) = 1

\* C2: a file has at most one public share row, and a Share call made when
\* the file has a public share row returns the id of that row.
C2_AtMostOnePublicShare ==
    [][ /\ \A f \in FileIds : Cardinality(PublicShares(f)') <= 1
        /\ \A u \in Users : \A f \in FileIds :
             (Share(u, f) /\ PublicShares(f) # {})
             => \E p \in PublicShares(f) : res'.shareId = p.id ]_vars

\* C3: a DeleteFile, Restore or PermanentDelete request of a user leaves
\* every file row of another user in the table, unchanged, and leaves the
\* object of every such row in the bucket.
C3_OtherUsersFilesUntouched ==
    [][ \A u \in Users : \A id \in FileIds :
          (\/ DeleteFile(u, id)
           \/ \E t \in Types : Restore(u, id, t)
           \/ \E t \in Types : \E removed \in BOOLEAN : \E deleted \in BOOLEAN :
                PermanentDelete(u, id, t, removed, deleted))
          => \A r \in files :
                r.owner_id # u
                => /\ r \in files'
                   /\ r.storage_key \in bucket => r.storage_key \in bucket' ]_vars

\* C4: a Share or ShareWithEmail request for a file made by a user who does
\* not own the file adds no share row and is not answered with a shareId.
C4_NonOwnerCannotShare ==
    [][ \A u \in Users : \A f \in FileIds :
          (/\ \E r \in files : r.id = f /\ r.owner_id # u
           /\ (Share(u, f) \/ \E e \in Emails : ShareWithEmail(u, f, e)))
          => (shares' = shares /\ res'.status # 200) ]_vars

\* C5: when the owner permanently deletes a file whose object is in the
\* bucket and the purge of the object fails, the request does not both
\* remove the row and answer success.
C5_PurgeFailureNotSilent ==
    [][ \A u \in Users : \A f \in FileIds : \A deleted \in BOOLEAN :
          \A r \in files :
             (/\ r.id = f /\ r.owner_id = u /\ r.storage_key \in bucket
              /\ PermanentDelete(u, f, "file", FALSE, deleted))
             => ~(r \notin files' /\ res'.status = 200) ]_vars

\* C6: no two file rows ever share an id, and a CompleteUpload call whose
\* fileId already names a row (whoever made the call that created it, and
\* in whichever order the two inserts reached the store) is answered 400
\* and leaves the files table, hence the winner's row, exactly as it was.
C6_DuplicateFileIdRejected ==
    [][ /\ \A x \in files' : \A y \in files' : x.id = y.id => x = y
        /\ \/ res'.status = 400 /\ files' = files
           \/ \A u \in Users : \A f \in FileIds : \A b \in Bodies :
                \A k \in KeysIssuedFor(f) \cup {StoragePath(u, f, b.name)} :
                   ~(/\ \E r \in files : r.id = f
                     /\ CompleteUpload(u, f, b.name, b.sizeBytes, b.folderId, k)) ]_vars

\* A CompleteUpload by one user has been refused while the files table
\* holds a row of another user.
C6_Witness ==
    /\ res.op = "CompleteUpload"
    /\ res.status = 400
    /\ \E r \in files : r.owner_id # res.user

\* C10: every file row has an id that InitUpload returned earlier.
C10_RowsOnlyForIssuedIds == \A r \in files : r.id \in IssuedIds

\* What the caller u sees of the tables fo and fi around the folder dir:
\* ListFolder of dir, ListTrash, and Search for every query.
Visible(fo, fi, u, dir) ==
    [list |-> ListFolderBody(fo, fi, u, dir),
     trash |-> ListTrashBody(fo, fi, u),
     search |-> [q \in Queries |-> SearchBody(fi, u, q)]]

FolderOf(r) == IF r.folder_id = NULL THEN Root ELSE r.folder_id

\* A DeleteFile step by the owner of row r, judged together with the Restore
\* (type file) that would follow it with no request in between; roundTrip
\* says whether the pair has to give back what the owner saw before.
DeleteThenRestore(u, r, roundTrip) ==
    LET restored == SetDeleted(files', r.id, u, FALSE)
    IN /\ [r EXCEPT !.is_deleted = TRUE] \in ListTrashBody(folders', files', u).files
       /\ \A x \in ListFolderBody(folders', files', u, FolderOf(r)).children.files :
             x.id # r.id
       /\ roundTrip => Visible(folders', restored, u, FolderOf(r))
                         = Visible(folders, files, u, FolderOf(r))
       /\ SetDeleted(files', r.id, u, TRUE) = files'
       /\ SetDeleted(restored, r.id, u, FALSE) = restored

\* C7 as stated: for any file owned by the caller, DeleteFile followed by
\* Restore gives back the ListFolder, ListTrash and Search results of before
\* the pair; in between the file is in ListTrash and not in ListFolder; a
\* second DeleteFile or a second Restore changes nothing.
C7_AnyOwnedFileRoundTrip ==
    [][ \A u \in Users : \A r \in files :
          (res'.op = "DeleteFile" /\ r.owner_id = u /\ DeleteFile(u, r.id))
          => DeleteThenRestore(u, r, TRUE) ]_vars

\* C7 as amended: the pair gives back the earlier results for a file that
\* was not in the trash before the DeleteFile; the rest holds for any file
\* owned by the caller.
C7_LiveFileRoundTrip ==
    [][ \A u \in Users : \A r \in files :
          (res'.op = "DeleteFile" /\ r.owner_id = u /\ DeleteFile(u, r.id))
          => DeleteThenRestore(u, r, ~r.is_deleted) ]_vars

\* A DeleteFile has been answered and the caller, who has another file in
\* the trash since before, sees the deleted file in ListTrash.
C7_Witness ==
    /\ res.op = "DeleteFile"
    /\ \E r \in files : \E x \in files :
          /\ r.owner_id = res.user /\ x.owner_id = res.user
          /\ r.id # x.id
          /\ r.is_deleted /\ ~x.is_deleted
          /\ r \in ListTrashBody(folders, files, res.user).files

\* C8: the anonymous route answers 404 when the public share row exists and
\* the file it references does not.
C8_DanglingShareNotFound ==
    [][ \A sid \in ShareIds :
          (/\ ResolveSharedFile(sid)
           /\ \E s \in shares : /\ s.id = sid /\ s.is_public
                                /\ ~\E r \in files : r.id = s.file_id)
          => res'.status = 404 ]_vars

\* C9: a Share call on an existing file whose object is in the bucket
\* answers with isPublic true and a shareId that the anonymous route
\* resolves to the file and a download capability.
C9_ShareReturnsResolvableLink ==
    [][ \A u \in Users : \A f \in FileIds : \A r \in files :
          (/\ r.id = f /\ r.storage_key \in bucket
           /\ Share(u, f))
          => /\ res'.isPublic
             /\ LET anon == ResolveSharedFileRes(shares', files', bucket', res'.shareId)
                IN anon.status = 200 /\ anon.body.file = r ]_vars

\* C11: a CreateFolder call whose parentId is not null and does not name a
\* folder row that is owned by the caller and not soft-deleted creates no
\* folder row and is not answered 201.
C11_ParentMustBeOwnedLiveFolder ==
    [][ \A u \in Users : \A p \in FolderIds :
          (/\ ~\E d \in folders : d.id = p /\ d.owner_id = u /\ ~d.is_deleted
           /\ CreateFolder(u, <<"a">>, p))
          => (folders' = folders /\ res'.status # 201) ]_vars

\* ListFolder of the parent of folder row d, by the owner of d, over the
\* tables fo and fi, includes the folder with the id of d.
Listed(fo, fi, d) ==
    \E x \in ListChildren(fo, fi, d.owner_id, d.parent_id).folders : x.id = d.id

\* A step keeps the folder rows listed: the row a CreateFolder call has
\* created is listed, and a row that was listed and is not soft-deleted after
\* the step is still listed; with exceptPurged, but for a row that the step,
\* a PermanentDelete of its owner with type folder, has removed.
StaysListed(exceptPurged) ==
    /\ (res'.op = "CreateFolder" /\ res'.status = 201)
       => Listed(folders', files', res'.body)
    /\ \A d \in folders :
         (/\ Listed(folders, files, d)
          /\ ~\E x \in folders' : x.id = d.id /\ x.is_deleted)
         => \/ Listed(folders', files', d)
            \/ /\ exceptPurged
               /\ res'.op = "PermanentDelete"
               /\ \E removed \in BOOLEAN :
                     PermanentDelete(d.owner_id, d.id, "folder", removed, TRUE)

\* C12 as stated: a folder created with parentId P is in ListFolder(P) of
\* its owner in every later state in which it has not been soft-deleted,
\* whatever requests were served in between.
C12_ListedUntilSoftDeleted == [][StaysListed(FALSE)]_vars

\* C12 as amended: the same, until the folder's owner permanently deletes
\* it, which the route does for a folder that is not in the trash.
C12_ListedUntilPurgedByOwner == [][StaysListed(TRUE)]_vars

\* A PermanentDelete has removed a folder, and a folder created under it is
\* still in the ListFolder of the removed parent.
C12_Witness ==
    /\ res.op = "PermanentDelete"
    /\ res.status = 200
    /\ \E d \in folders :
          /\ d.parent_id # NULL
          /\ ~\E x \in folders : x.id = d.parent_id
          /\ Listed(folders, files, d)

\* C13: the anonymous route answers 404, with no file row and no download
\* capability in the response, for a shareId that no share row has and for a
\* shareId whose share row has is_public false.
C13_TargetedOrUnknownShareNotFound ==
    [][ \A sid \in ShareIds :
          (/\ ~\E s \in shares : s.id = sid /\ s.is_public
           /\ ResolveSharedFile(sid))
          => res' = [op |-> "ResolveSharedFile", status |-> 404] ]_vars

\* The anonymous route has answered 404 when every share id names a targeted
\* share of a file that exists and whose object is in the bucket.
C13_Witness ==
    /\ res.op = "ResolveSharedFile"
    /\ res.status = 404
    /\ \A sid \in ShareIds :
          \E s \in shares : \E r \in files :
             /\ s.id = sid /\ ~s.is_public
             /\ r.id = s.file_id /\ r.storage_key \in bucket

\* C14: while there are no share rows, the response to a ListFolder,
\* GetDownload, Search, ListTrash or ListSharedWithMe request holds no
\* folder row and no file row owned by another user than the caller, and no
\* download capability for the object of another user's file.
C14_ResponsesHoldOnlyOwnRows ==
    shares = {} =>
      /\ res.op = "ListFolder" =>
           /\ res.body.folder = NoRow \/ res.body.folder.owner_id = res.user
           /\ \A d \in res.body.children.folders : d.owner_id = res.user
           /\ \A f \in res.body.children.files : f.owner_id = res.user
      /\ res.op = "ListTrash" =>
           /\ \A d \in res.body.folders : d.owner_id = res.user
           /\ \A f \in res.body.files : f.owner_id = res.user
      /\ res.op \in {"Search", "ListSharedWithMe"} =>
           \A f \in res.body : f.owner_id = res.user
      /\ (res.op = "GetDownload" /\ res.status = 200) =>
           ~\E f \in files : f.owner_id # res.user /\ f.storage_key = res.body.url.key

\* The table t2 is the table t with at most the is_deleted flag of the row
\* with this id and owner changed to v.
OnlyFlagOfTarget(t, t2, id, u, v) ==
    /\ Cardinality(t2) = Cardinality(t)
    /\ \A r \in t : IF r.id = id /\ r.owner_id = u
                    THEN [r EXCEPT !.is_deleted = v] \in t2
                    ELSE r \in t2

\* C15: a DeleteFile or Restore request changes at most the is_deleted flag
\* of the row it names (for Restore, in the table its type names), if the
\* caller owns it: every other field of the row, every other file and folder
\* row, the share rows and the bucket are as before.  In every step, a file
\* row keeps its storage_key, and only a PermanentDelete takes an object out
\* of the bucket.
C15_OnlyTheFlagOfTheTarget ==
    [][ /\ \/ files' = files
           \/ \A r \in files : \A x \in files' : x.id = r.id => x.storage_key = r.storage_key
        /\ \/ bucket' = bucket
           \/ res'.op = "PermanentDelete"
           \/ bucket \subseteq bucket'
        /\ res'.op = "DeleteFile" =>
             /\ folders' = folders /\ shares' = shares /\ bucket' = bucket
             /\ \/ files' = files
                \/ \A id \in FileIds \cup FolderIds :
                     DeleteFile(res'.user, id)
                     => OnlyFlagOfTarget(files, files', id, res'.user, TRUE)
        /\ res'.op = "Restore" =>
             /\ shares' = shares /\ bucket' = bucket
             /\ \/ files' = files /\ folders' = folders
                \/ \A id \in FileIds \cup FolderIds : \A t \in Types :
                     Restore(res'.user, id, t)
                     => IF t = "folder"
                        THEN /\ OnlyFlagOfTarget(folders, folders', id, res'.user, FALSE)
                             /\ files' = files
                        ELSE /\ OnlyFlagOfTarget(files, files', id, res'.user, FALSE)
                             /\ folders' = folders ]_vars

\* A DeleteFile has put a file of the caller, whose object is in the bucket,
\* in the trash, while another user has a file in the trash too.
C15_Witness ==
    /\ res.op = "DeleteFile"
    /\ \E r \in files : \E x \in files :
          /\ r.owner_id = res.user /\ r.is_deleted /\ r.storage_key \in bucket
          /\ x.owner_id # res.user /\ x.is_deleted

\* C16: after a PermanentDelete of a file by its owner, made when the row
\* and its object both exist, the row exists exactly if the object does;
\* and when the request is answered with an error, both are still there.
C16_RowAndObjectGoTogether ==
    [][ \A r \in files : \A removed \in BOOLEAN : \A deleted \in BOOLEAN :
          (/\ res'.op = "PermanentDelete"
           /\ r.storage_key \in bucket
           /\ PermanentDelete(r.owner_id, r.id, "file", removed, deleted))
          => /\ r \in files' <=> r.storage_key \in bucket'
             /\ res'.status # 200 => (r \in files' /\ r.storage_key \in bucket') ]_vars

\* C17: no folder row ever has is_deleted true, whatever id the soft delete
\* is called with; so ListTrash answers with no folders, and a Restore with
\* type folder changes no row.
C17_NoFolderIsEverInTrash ==
    [][ /\ \A d \in folders' : ~d.is_deleted
        /\ res'.op = "ListTrash" => res'.body.folders = {}
        /\ res'.op = "Restore" =>
             \A id \in FileIds \cup FolderIds :
                Restore(res'.user, id, "folder") => (folders' = folders /\ files' = files) ]_vars

\* ListTrash has been answered to a user who has a folder and a file in the
\* trash: the file is in the answer and no folder is.
C17_Witness ==
    /\ res.op = "ListTrash"
    /\ res.body.folders = {}
    /\ res.body.files # {}
    /\ \E d \in folders : d.owner_id = res.user

\* A GetDownload step judged against the rows of the caller: with no row of
\* this id owned by the caller the answer is 404; with such a row, in the
\* trash or not, the answer is 200 with a capability for the row's object and
\* the row's name; needsObject says whether that is required only of a row
\* whose object is in the bucket, a row without its object being answered
\* 500.
DownloadAnswer(needsObject) ==
    res'.op = "GetDownload" =>
      \A id \in FileIds :
         GetDownload(res'.user, id) =>
           LET owned == {r \in files : r.id = id /\ r.owner_id = res'.user}
           IN /\ owned = {} => res'.status = 404
              /\ \A r \in owned :
                   IF needsObject /\ r.storage_key \notin bucket
                   THEN res'.status = 500
                   ELSE /\ res'.status = 200
                        /\ res'.body.url.key = r.storage_key
                        /\ res'.body.name = r.name

\* C18 as stated: GetDownload returns a capability exactly when a row with
\* this id owned by the caller exists, whatever its is_deleted, and answers
\* 404 otherwise.
C18_CapabilityIffOwnedRow == [][DownloadAnswer(FALSE)]_vars

\* C18 as amended: the capability is returned exactly when the row exists
\* and the bucket holds its object; a row whose object is not in the bucket
\* is answered 500.
C18_CapabilityIffOwnedRowWithObject == [][DownloadAnswer(TRUE)]_vars

\* GetDownload has given its caller a capability for a file that is in the
\* trash.
C18_Witness ==
    /\ res.op = "GetDownload"
    /\ res.status = 200
    /\ \E r \in files : /\ r.owner_id = res.user /\ r.is_deleted
                        /\ r.storage_key = res.body.url.key

\* Following parent_id from the folder id p reaches root in at most n steps.
RECURSIVE ReachesRoot(_, _)
ReachesRoot(p, n) ==
    IF p = NULL THEN TRUE
    ELSE IF n = 0 THEN FALSE
    ELSE \E d \in folders : d.id = p /\ ReachesRoot(d.parent_id, n - 1)

\* C19: every folder_id and parent_id that is not null names a folder row,
\* every file_id of a share names a file row, and following parent_id from
\* any folder reaches root.
C19_ReferencesIntact ==
    /\ \A f \in files : f.folder_id # NULL => \E d \in folders : d.id = f.folder_id
    /\ \A d \in folders : d.parent_id # NULL => \E x \in folders : x.id = d.parent_id
    /\ \A s \in shares : \E f \in files : f.id = s.file_id
    /\ \A d \in folders : ReachesRoot(d.id, Cardinality(folders))
====
